---- MODULE Spec2Model ----
(***************************************************************************)
(* A model of the double-mapped byte ring buffer of src/src/ringbuf.rs.    *)
(*                                                                         *)
(* One RingBuf value is followed through its life: RingBuf::new, any       *)
(* sequence of write and read calls, and the Drop implementation.  The     *)
(* physical storage behind the memfd is the function mem; the 2 x buf_size *)
(* virtual range is reached through Translate, which follows the two       *)
(* MAP_FIXED mappings of new.  The variables last, written and readout     *)
(* are observations of the calls (what the caller passed and got back);    *)
(* the code never reads them.                                              *)
(***************************************************************************)
EXTENDS Integers, Sequences, FiniteSets, TLC

\* ------------------------------------------------------------------ bounds
\* Bytes per page.  The source fixes 4096 (ringbuf.rs:41); the model is
\* scaled down so that the storage can be enumerated.
PageSize == 2
\* Largest num_pages handed to RingBuf::new.
MaxPages == 2
\* Longest slice handed to write.
MaxData == 3
\* Total number of bytes accepted by successful writes in one behaviour.
MaxBytes == 5
\* Number of stores through a view in one behaviour.
MaxStores == 1
\* Width of usize in bits.  The target has 64; the model is scaled down with
\* the page size so that num_pages * PageSize can exceed it.
UsizeBits == 5

\* The byte values written by the caller (a sample of u8; storage starts 0).
Byte == {1, 2}

VARIABLES
    pc,             \* "start" | "live" | "failed" | "panicked" | "dropped"
    buf_size,       \* RingBuf.buf_size
    contents_size,  \* RingBuf.contents_size
    head,           \* RingBuf.head
    tail,           \* RingBuf.tail
    mem,            \* the memfd's bytes, offset -> byte
    fd_open,        \* RingBuf._mem_fd: is the descriptor open
    vm,             \* what the two halves of the virtual range are mapped to
    view,           \* the slice returned by the latest read
    last,           \* the latest call: operation, argument, result, pre-state
    written,        \* all bytes accepted by successful writes, in order
    readout,        \* all bytes returned by successful reads, in order
    released,       \* how often the range was unmapped / the descriptor closed
    stores,         \* number of stores the caller made through a view
    typed,          \* the value of the latest call, when it was a typed one
    awaited         \* the slice of a rejected write that the caller will retry

vars == <<pc, buf_size, contents_size, head, tail, mem, fd_open, vm, view,
          last, written, readout, released, stores, typed,
          awaited>>

\* ------------------------------------------------------------ error values
NoErr == [kind |-> "None", val |-> "None"]

\* impl From<nix::Error> for Error
FromNix(e) == [kind |-> "Nix", val |-> e]

\* Mutant: a buffer error is wrapped as an OS error.
FromBufError_AsNix(e) == [kind |-> "Nix", val |-> e]

\* impl From<BufError> for Error
FromBufError(e) == [kind |-> "Ours", val |-> e]

\* BufError has the single variant TooSmall
TooSmall == "TooSmall"

\* The errno values an OS call may report (a sample).
Errno == {"ENOMEM", "EMFILE", "EINVAL"}

Ok == [ok |-> TRUE, panic |-> FALSE, err |-> NoErr]
Err(e) == [ok |-> FALSE, panic |-> FALSE, err |-> e]
Panic == [ok |-> FALSE, panic |-> TRUE, err |-> NoErr]

\* ----------------------------------------------------------------- helpers
NoView == [held |-> FALSE, start |-> 0, len |-> 0, bytes |-> <<>>]

Unmapped == [lo |-> "none", hi |-> "none"]

\* follows: the call made just before was a successful write of exactly n
\* bytes and this one is a read.
Call(op, data, n, res) ==
    [op |-> op, data |-> data, n |-> n, res |-> res,
     pre_head |-> head, pre_tail |-> tail, pre_size |-> contents_size,
     follows |-> (op = "read" /\ last.op = "write" /\ last.res.ok /\ last.n = n)]

\* The caller is not waiting to retry a rejected write.
NoneAwaited == [data |-> <<>>, retried |-> FALSE]

\* The latest call was write or read, not write_typed or read_typed.
NoTyped == [is |-> FALSE, val |-> 0, echo |-> FALSE]

\* The byte values the caller stores through a view (never given to write).
Scribble == {3}

\* The slices a caller may hand to write.
DataSet == UNION {[1..l -> Byte] : l \in 0..MaxData}

\* Virtual offset (relative to buf) -> offset in the memfd.  Both halves are
\* mapped from file offset 0.
Translate(v) == IF v < buf_size THEN v ELSE v - buf_size

\* What the virtual offset v is mapped to.
Half(v) == IF v < buf_size THEN vm.lo ELSE vm.hi

\* The byte visible at buf + v, for v in a half that maps the memfd.
VRead(v) == mem[Translate(v)]

\* ---------------------------------------------------------------- RingBuf::new
\* The OS calls of new, in the order the code issues them.
OsCalls == <<"memfd_create", "ftruncate", "mmap_anonymous", "mmap_lo", "mmap_hi">>

\* Mutant: the second mmap is given buf instead of buf.add(buf_size), so it
\* lands on the first half again and the second half stays reserved.
VmAfter_SecondOverFirst(done) ==
    [lo |-> IF done >= 4 THEN "shared" ELSE IF done >= 3 THEN "reserved" ELSE "none",
     hi |-> IF done >= 3 THEN "reserved" ELSE "none"]

\* The mappings that exist once the first `done` OS calls have succeeded.
VmAfter(done) ==
    [lo |-> IF done >= 4 THEN "shared" ELSE IF done >= 3 THEN "reserved" ELSE "none",
     hi |-> IF done >= 5 THEN "shared" ELSE IF done >= 3 THEN "reserved" ELSE "none"]

\* What an early return through `?` releases: mem_fd is an OwnedFd and is
\* closed by its destructor; buf is a raw pointer and nothing unmaps it.
VmAtErrorReturn(done) == VmAfter(done)

\* usize arithmetic: values are kept modulo 2^UsizeBits.
UsizeMod == 2 ^ UsizeBits

\* num_pages.get() * page_size, as the wrapping build computes it
BufSizeOf(num_pages) == (num_pages * PageSize) % UsizeMod

\* buf_size.get() * 2, as the wrapping build computes it
MapSizeOf(size) == (size * 2) % UsizeMod

\* One of the two products does not fit in usize.
Overflows(num_pages) ==
    \/ num_pages * PageSize >= UsizeMod
    \/ BufSizeOf(num_pages) * 2 >= UsizeMod

\* The builds: with overflow checks (debug) a product that does not fit
\* panics, without them (release) it wraps.
Builds == {"checked", "wrapping"}

\* The first OS call that the kernel refuses because of its argument:
\* ftruncate of a length that is negative as i64, mmap_anonymous of length 0;
\* Len(OsCalls) + 1 when there is none.
Refused(size) ==
    IF size >= UsizeMod \div 2 THEN 2
    ELSE IF MapSizeOf(size) = 0 THEN 3
    ELSE Len(OsCalls) + 1

\* new(num_pages) in the given build, where the OS call number failAt fails
\* with errno e (failAt = Len(OsCalls) + 1: no call fails for a reason of
\* the environment).
New(num_pages, failAt, e, build) ==
    LET size == BufSizeOf(num_pages)
        at == IF failAt <= Refused(size) THEN failAt ELSE Refused(size)
        errno == IF failAt <= Refused(size) THEN e ELSE "EINVAL"
        \* NonZeroUsize::new_unchecked(0) is undefined behaviour
        undefined == size = 0 \/ MapSizeOf(size) = 0
    IN
    /\ pc = "start"
    /\ \/ \* NonZeroUsize::new(num_pages).expect(..); an overflowing product
          \* in a checked build; a crash after undefined behaviour
          /\ \/ num_pages = 0
             \/ num_pages # 0 /\ build = "checked" /\ Overflows(num_pages)
             \/ num_pages # 0 /\ build = "wrapping" /\ undefined
          /\ pc' = "panicked"
          /\ last' = Call("new", <<>>, num_pages, Panic)
          /\ UNCHANGED <<buf_size, contents_size, head, tail, mem, fd_open, vm,
                         released>>
       \/ \* an OS call fails and `?` returns the error
          /\ num_pages # 0
          /\ build = "checked" => ~Overflows(num_pages)
          /\ at <= Len(OsCalls)
          /\ pc' = "failed"
          /\ last' = Call("new", <<>>, num_pages, Err(FromNix(errno)))
          /\ fd_open' = FALSE
          /\ vm' = VmAtErrorReturn(at - 1)
          /\ released' = IF at >= 2 THEN [released EXCEPT !.close = @ + 1]
                         ELSE released
          /\ UNCHANGED <<buf_size, contents_size, head, tail, mem>>
       \/ \* Ok(Self { .. })
          /\ num_pages # 0
          /\ build = "checked" => ~Overflows(num_pages)
          /\ at > Len(OsCalls)
          /\ pc' = "live"
          /\ last' = Call("new", <<>>, num_pages, Ok)
          /\ buf_size' = size
          /\ mem' = [p \in 0..(size - 1) |-> 0]
          /\ fd_open' = TRUE
          /\ vm' = VmAfter(Len(OsCalls))
          /\ contents_size' = 0
          /\ head' = 0
          /\ tail' = 0
          /\ UNCHANGED released
    /\ view' = NoView
    /\ typed' = NoTyped
    /\ awaited' = NoneAwaited
    /\ UNCHANGED <<written, readout, stores>>

\* ----------------------------------------------------- the borrow of a view
\* Mutant: the slice returned by read outlives the next call, as a slice with
\* a lifetime of its own would.
ViewAfterCall_Kept == view

\* read(&mut self, ..) -> Result<&mut [u8]>: the slice borrows the buffer
\* mutably, so the next call that takes &mut self can only be made once the
\* caller has given the slice up.
ViewAfterCall == NoView

\* -------------------------------------------------------------- RingBuf::write
\* Mutant: the space check forgets the bytes already resident.
WriteRejects_IgnoresContents(len) == len > buf_size

\* Mutant: the space check rejects a slice that fits exactly.
WriteRejects_OffByOne(len) == len >= buf_size - contents_size

\* if raw.len() > self.buf_size.get() - self.contents_size
WriteRejects(len) == len > buf_size - contents_size

\* Mutant: the copy stops at the end of the first half, as it would if the
\* second half were not a mapping of the same storage.
CopyIn_NoMirror(raw) ==
    [p \in DOMAIN mem |->
        IF p >= tail /\ p - tail < Len(raw) THEN raw[p - tail + 1] ELSE mem[p]]

\* Mutant: the copy writes one byte more than the slice holds, a zero.
CopyIn_OneMore(raw) ==
    [p \in DOMAIN mem |->
        LET hits == {i \in 1..Len(raw) : Translate(tail + i - 1) = p}
        IN  IF hits # {} THEN raw[CHOOSE i \in hits : \A j \in hits : j <= i]
            ELSE IF raw # <<>> /\ Translate(tail + Len(raw)) = p THEN 0
            ELSE mem[p]]

\* std::ptr::copy(raw.as_ptr(), self.buf.add(self.tail), raw.len())
CopyIn(raw) ==
    [p \in DOMAIN mem |->
        LET hits == {i \in 1..Len(raw) : Translate(tail + i - 1) = p}
        IN  IF hits = {} THEN mem[p]
            ELSE raw[CHOOSE i \in hits : \A j \in hits : j <= i]]

\* Mutant: a rejected write has already copied the part that fits.
MemAfterRejectedWrite_Partial(raw) == CopyIn(SubSeq(raw, 1, buf_size - contents_size))

\* The early return of a rejected write comes before the copy.
MemAfterRejectedWrite(raw) == mem

\* Mutant: the tail is advanced without the modulo.
TailAfterWrite_NoWrap(len) == tail + len

\* self.tail = (self.tail + raw.len()) % self.buf_size.get()
TailAfterWrite(len) == (tail + len) % buf_size

\* self.contents_size += raw.len()
SizeAfterWrite(len) == contents_size + len

\* The error a rejected write returns.
WriteError == FromBufError(TooSmall)

Write(raw) ==
    /\ pc = "live"
    /\ view' = ViewAfterCall
    /\ IF WriteRejects(Len(raw))
       THEN /\ last' = Call("write", raw, Len(raw), Err(WriteError))
            /\ mem' = MemAfterRejectedWrite(raw)
            /\ UNCHANGED <<tail, contents_size, written>>
       ELSE /\ Len(written) + Len(raw) <= MaxBytes
            /\ last' = Call("write", raw, Len(raw), Ok)
            /\ mem' = CopyIn(raw)
            /\ tail' = TailAfterWrite(Len(raw))
            /\ contents_size' = SizeAfterWrite(Len(raw))
            /\ written' = written \o raw
    /\ UNCHANGED <<pc, buf_size, head, fd_open, vm, readout, released, stores>>

\* --------------------------------------------------------------- RingBuf::read
\* Mutant: the content check rejects a read of everything resident.
ReadRejects_OffByOne(num_bytes) == num_bytes >= contents_size

\* if num_bytes > self.contents_size
ReadRejects(num_bytes) == num_bytes > contents_size

\* Mutant: the view starts at the write cursor instead of the read cursor.
ViewBytes_AtTail(num_bytes) == [i \in 1..num_bytes |-> mem[Translate(tail + i - 1)]]

\* std::slice::from_raw_parts_mut(self.buf.add(self.head), num_bytes)
ViewBytes(num_bytes) == [i \in 1..num_bytes |-> mem[Translate(head + i - 1)]]

\* Mutant: the head is advanced without the modulo.
HeadAfterRead_NoWrap(num_bytes) == head + num_bytes

\* Mutant: a read does not advance the head.
HeadAfterRead_Stays(num_bytes) == head

\* self.head = (self.head + num_bytes) % self.buf_size.get()
HeadAfterRead(num_bytes) == (head + num_bytes) % buf_size

\* Mutant: a read forgets to give the bytes back.
SizeAfterRead_Forgets(num_bytes) == contents_size

\* self.contents_size -= num_bytes
SizeAfterRead(num_bytes) == contents_size - num_bytes

\* The error a rejected read returns.
ReadError == FromBufError(TooSmall)

Read(num_bytes) ==
    /\ pc = "live"
    /\ IF ReadRejects(num_bytes)
       THEN /\ last' = Call("read", <<>>, num_bytes, Err(ReadError))
            /\ view' = ViewAfterCall
            /\ UNCHANGED <<head, contents_size, readout>>
       ELSE /\ last' = Call("read", <<>>, num_bytes, Ok)
            /\ view' = [held |-> TRUE, start |-> head, len |-> num_bytes,
                        bytes |-> ViewBytes(num_bytes)]
            /\ head' = HeadAfterRead(num_bytes)
            /\ contents_size' = SizeAfterRead(num_bytes)
            /\ readout' = readout \o ViewBytes(num_bytes)
    /\ UNCHANGED <<pc, buf_size, tail, mem, fd_open, vm, written, released, stores>>

\* ------------------------------------------- write_typed, read_typed
\* size_of::<T>() for the value type of the typed calls; T is taken to be a
\* two-byte unsigned integer.
SizeOfT == 2

\* The number of values of a u8.
U8Mod == 2 ^ 8

\* Mutant: the bytes of the value are taken in the reverse order.
AsU8Slice_Reversed(value) ==
    [i \in 1..SizeOfT |-> (value \div (U8Mod ^ (SizeOfT - i))) % U8Mod]

\* as_u8_slice(&value): the size_of::<T>() bytes of the value as they lie in
\* memory (lowest byte first on the targets of the mmap calls).
AsU8Slice(value) ==
    [i \in 1..SizeOfT |-> (value \div (U8Mod ^ (i - 1))) % U8Mod]

RECURSIVE Reinterpret(_)
\* transmute(raw_struct): the value of type T that lies in the view's bytes.
Reinterpret(bytes) ==
    IF bytes = <<>> THEN 0
    ELSE Head(bytes) + U8Mod * Reinterpret(Tail(bytes))

\* The values handed to write_typed: those whose bytes are in Byte.
TypedValues == {Reinterpret(b) : b \in [1..SizeOfT -> Byte]}

\* write_typed(value): self.write(as_u8_slice(&value))
WriteTyped(value) ==
    /\ Write(AsU8Slice(value))
    /\ typed' = [is |-> TRUE, val |-> value, echo |-> FALSE]
    /\ awaited' = NoneAwaited

\* read_typed::<T>(): self.read(size_of::<T>())? and the transmute of the view
ReadTyped ==
    /\ Read(SizeOfT)
    /\ typed' = [is |-> TRUE,
                 val |-> IF ReadRejects(SizeOfT) THEN 0
                         ELSE Reinterpret(ViewBytes(SizeOfT)),
                 echo |-> typed.is /\ last.op = "write" /\ last.res.ok
                          /\ last.pre_size = 0]
    /\ awaited' = NoneAwaited

\* ------------------------------------------------- the caller's use of a view
\* read returns &mut [u8]: while the caller holds the view it may store
\* through it, view[i - 1] = b (i counts from 1 here).
Store(i, b) ==
    /\ pc = "live"
    /\ view.held
    /\ i \in 1..view.len
    /\ stores < MaxStores
    /\ stores' = stores + 1
    /\ mem' = [mem EXCEPT ![Translate(view.start + i - 1)] = b]
    /\ view' = [view EXCEPT !.bytes[i] = b]
    /\ last' = Call("store", <<b>>, i, Ok)
    /\ typed' = NoTyped
    /\ awaited' = NoneAwaited
    /\ UNCHANGED <<pc, buf_size, contents_size, head, tail, fd_open, vm,
                   written, readout, released>>

\* --------------------------------------------------------- impl Drop for RingBuf
\* Mutant: only the first half is unmapped.
MunmapLen_OneHalf == buf_size

\* The length handed to munmap: 2 * self.buf_size.get()
MunmapLen == 2 * buf_size

\* The mappings left by a successful munmap(buf, len).
Unmap(len) ==
    [lo |-> IF len >= buf_size THEN "none" ELSE vm.lo,
     hi |-> IF len >= 2 * buf_size THEN "none" ELSE vm.hi]

\* munmap(buf, 2 * buf_size).expect(..); the field _mem_fd is dropped after
\* the body of drop, also when the expect panics and the panic unwinds.
Drop(munmap_ok) ==
    /\ pc = "live"
    /\ pc' = IF munmap_ok THEN "dropped" ELSE "panicked"
    /\ vm' = IF munmap_ok THEN Unmap(MunmapLen) ELSE vm
    /\ fd_open' = FALSE
    /\ released' = [unmap |-> released.unmap + (IF munmap_ok THEN 1 ELSE 0),
                    close |-> released.close + 1]
    /\ view' = NoView
    /\ last' = Call("drop", <<>>, 2 * buf_size, IF munmap_ok THEN Ok ELSE Panic)
    /\ typed' = NoTyped
    /\ awaited' = NoneAwaited
    /\ UNCHANGED <<buf_size, contents_size, head, tail, mem, written, readout, stores>>

\* ----------------------------------------------------------- specification
Init ==
    /\ pc = "start"
    /\ buf_size = 0
    /\ contents_size = 0
    /\ head = 0
    /\ tail = 0
    /\ mem = << >>
    /\ fd_open = FALSE
    /\ vm = Unmapped
    /\ view = NoView
    /\ last = [op |-> "none", data |-> <<>>, n |-> 0, res |-> Ok,
               pre_head |-> 0, pre_tail |-> 0, pre_size |-> 0, follows |-> FALSE]
    /\ written = <<>>
    /\ readout = <<>>
    /\ released = [unmap |-> 0, close |-> 0]
    /\ stores = 0
    /\ typed = NoTyped
    /\ awaited = NoneAwaited

DoNew == \E num_pages \in 0..MaxPages, failAt \in 1..(Len(OsCalls) + 1), e \in Errno,
            build \in Builds :
            New(num_pages, failAt, e, build)

DoWrite == \E raw \in DataSet :
            Write(raw) /\ typed' = NoTyped /\ awaited' = NoneAwaited

DoRead == \E num_bytes \in 0..(buf_size + 1) :
            Read(num_bytes) /\ typed' = NoTyped /\ awaited' = NoneAwaited

DoStore == \E i \in 1..(MaxPages * PageSize), b \in Scribble : Store(i, b)

DoDrop == \E munmap_ok \in BOOLEAN : Drop(munmap_ok)

Next == DoNew \/ DoWrite \/ DoRead \/ DoDrop

Spec == Init /\ [][Next]_vars

\* The buffer together with a caller that stores through the views it holds.
NextView == DoNew \/ DoWrite \/ DoRead \/ DoStore \/ DoDrop

SpecView == Init /\ [][NextView]_vars

\* The buffer with a caller that remembers the slice of a rejected write
\* across its reads and may hand it to write again.
DoWriteNoting ==
    \E raw \in DataSet :
        /\ Write(raw)
        /\ typed' = NoTyped
        /\ awaited' = IF WriteRejects(Len(raw))
                      THEN [data |-> raw, retried |-> FALSE]
                      ELSE [data |-> <<>>,
                            retried |-> (raw # <<>> /\ awaited.data = raw)]

DoReadNoting ==
    \E num_bytes \in 0..(buf_size + 1) :
        /\ Read(num_bytes)
        /\ typed' = NoTyped
        /\ awaited' = [awaited EXCEPT !.retried = FALSE]

NextRetry == DoNew \/ DoWriteNoting \/ DoReadNoting \/ DoDrop

SpecRetry == Init /\ [][NextRetry]_vars

\* The buffer with the typed calls next to the byte calls.
DoWriteTyped == \E value \in TypedValues : WriteTyped(value)

DoReadTyped == ReadTyped

NextTyped == DoNew \/ DoWrite \/ DoRead \/ DoWriteTyped \/ DoReadTyped \/ DoDrop

SpecTyped == Init /\ [][NextTyped]_vars

\* Construction alone, for every page count a usize can hold.
DoNewAny == \E num_pages \in 0..(UsizeMod - 1), failAt \in 1..(Len(OsCalls) + 1),
               e \in Errno, build \in Builds :
               New(num_pages, failAt, e, build)

NextNew == DoNewAny

SpecNew == Init /\ [][NextNew]_vars

\* ------------------------------------------------------------------ claims
IsPrefix(s, t) == Len(s) <= Len(t) /\ s = SubSeq(t, 1, Len(s))

\* C1: in every state of a constructed buffer, whatever writes and reads
\* (accepted or rejected) led to it, 0 <= contents_size <= buf_size, so
\* neither buf_size - contents_size nor contents_size - num_bytes underflows.
C1_SizeWithinCapacity ==
    pc = "live" =>
        /\ contents_size >= 0
        /\ contents_size <= buf_size
        /\ buf_size - contents_size >= 0

\* C1 witness: a full buffer that has already been read from rejects a write.
C1_Witness ==
    /\ pc = "live"
    /\ contents_size = buf_size
    /\ readout # <<>>
    /\ last.op = "write"
    /\ ~last.res.ok

\* C2: tail = (head + contents_size) mod buf_size in every state of a
\* constructed buffer; a write never moves head and a read never moves tail.
C2_TailFollowsHead ==
    /\ [](pc = "live" => tail = (head + contents_size) % buf_size)
    /\ [][/\ last'.op = "write" => head' = head
          /\ last'.op = "read" => tail' = tail]_vars

\* C2 witness: the content wraps, the write cursor is below the read cursor.
C2_Witness ==
    /\ pc = "live"
    /\ tail < head
    /\ contents_size > 0
    /\ last.op = "write"
    /\ last.res.ok

\* C3: contents_size is the number of bytes accepted by successful writes
\* minus the number of bytes returned by successful reads.
C3_Conservation ==
    pc = "live" => contents_size = Len(written) - Len(readout)

\* C3 witness: more than one buffer's worth has been written, some of it has
\* been read, some is still resident, and the latest call was rejected.
C3_Witness ==
    /\ pc = "live"
    /\ Len(written) > buf_size
    /\ readout # <<>>
    /\ contents_size > 0
    /\ ~last.res.ok

\* C4: the bytes returned by the successful reads, in order, are a prefix of
\* the bytes given to the successful writes, in order; the view of a read
\* that crosses offset buf_size holds the end of the storage followed by its
\* start.
C4_Fifo ==
    pc = "live" =>
        /\ IsPrefix(readout, written)
        /\ (view.held /\ last.op = "read") =>
            /\ view.bytes = SubSeq(written, Len(readout) - view.len + 1, Len(readout))
            /\ view.bytes = [i \in 1..view.len |-> mem[(view.start + i - 1) % buf_size]]

\* C4 witness: a view that crosses offset buf_size and holds different bytes
\* on the two sides of it.
C4_Witness ==
    /\ pc = "live"
    /\ view.held
    /\ last.op = "read"
    /\ view.start + view.len > buf_size
    /\ view.bytes[1] # view.bytes[view.len]

\* C5 as stated: a successful write of S followed at once by a read of
\* Len(S) bytes returns exactly S, whatever the buffer held before.
C5_RoundTripAnyState ==
    [][(/\ last.op = "write" /\ last.res.ok
        /\ last'.op = "read" /\ last'.n = last.n)
       => (last'.res.ok /\ view'.held /\ view'.bytes = last.data)]_vars

\* C5 amended: on a buffer with no unread bytes (contents_size = 0, head and
\* tail anywhere) a write of S with Len(S) <= buf_size succeeds, and a read
\* of Len(S) bytes made right after it succeeds and returns exactly S, also
\* when the span crosses offset buf_size.
C5_RoundTripOnEmpty ==
    [][/\ (/\ pc = "live" /\ last'.op = "write"
           /\ contents_size = 0 /\ last'.n <= buf_size)
          => last'.res.ok
       /\ (/\ last.op = "write" /\ last.res.ok /\ last.pre_size = 0
           /\ last'.op = "read" /\ last'.n = last.n)
          => (last'.res.ok /\ view'.held /\ view'.bytes = last.data)]_vars

\* C5 witness: a read that follows a write of as many bytes into an empty
\* buffer, where the span crosses offset buf_size and the bytes differ.
C5_Witness ==
    /\ pc = "live"
    /\ last.op = "read"
    /\ last.follows
    /\ last.res.ok
    /\ last.pre_size = last.n
    /\ last.pre_head + last.n > buf_size
    /\ view.bytes[1] # view.bytes[view.len]

\* C6: a write is rejected exactly when Len(raw) > buf_size - contents_size,
\* and a rejected write changes neither head, tail, contents_size nor any
\* stored byte (nor anything else of the buffer), so the buffer is the one a
\* following call would have found without it.
C6_WriteAllOrNothing ==
    [][last'.op = "write" =>
        /\ (~last'.res.ok) <=> (last'.n > buf_size - contents_size)
        /\ (~last'.res.ok) =>
              UNCHANGED <<head, tail, contents_size, mem, buf_size, pc, fd_open, vm>>]_vars

\* C6 witness: a non-empty buffer with free space rejects a slice whose first
\* bytes would have fitted.
C6_Witness ==
    /\ pc = "live"
    /\ last.op = "write"
    /\ ~last.res.ok
    /\ contents_size > 0
    /\ contents_size < buf_size
    /\ tail > 0

\* C7: a read is rejected exactly when num_bytes > contents_size, and a
\* rejected read hands out no view and changes neither head, tail,
\* contents_size nor any stored byte.
C7_ReadAllOrNothing ==
    [][last'.op = "read" =>
        /\ (~last'.res.ok) <=> (last'.n > contents_size)
        /\ last'.res.ok => view'.held
        /\ (~last'.res.ok) =>
              /\ view' = NoView
              /\ UNCHANGED <<head, tail, contents_size, mem, buf_size, pc, fd_open, vm>>]_vars

\* C7 witness: a buffer that holds bytes rejects a read of one byte more.
C7_Witness ==
    /\ pc = "live"
    /\ last.op = "read"
    /\ ~last.res.ok
    /\ contents_size > 0
    /\ last.n = contents_size + 1
    /\ head > 0

\* C8: a write of exactly buf_size - contents_size bytes succeeds and makes
\* contents_size = buf_size; in a full buffer head = tail and a write of one
\* byte is rejected with the error of a rejected write.
C8_ExactFit ==
    /\ [][/\ (last'.op = "write" /\ last'.n = buf_size - contents_size)
             => (last'.res.ok /\ contents_size' = buf_size /\ head' = tail')
          /\ (last'.op = "write" /\ contents_size = buf_size /\ last'.n = 1)
             => (~last'.res.ok /\ last'.res.err = WriteError)]_vars
    /\ []((pc = "live" /\ contents_size = buf_size) => head = tail)

\* C8 witness: a buffer filled exactly, away from offset 0, has rejected a
\* write of one byte.
C8_Witness ==
    /\ pc = "live"
    /\ contents_size = buf_size
    /\ head = tail
    /\ head > 0
    /\ last.op = "write"
    /\ last.n = 1
    /\ ~last.res.ok

C10_RollbackOnFailure ==
    pc = "failed" =>
        /\ ~last.res.ok
        /\ last.res.err.kind = "Nix"
        /\ ~fd_open
        /\ vm = Unmapped

C12_Mirror ==
    pc = "live" =>
        \A i \in 0..(buf_size - 1) :
            /\ Half(i) = "shared"
            /\ Half(i + buf_size) = "shared"
            /\ VRead(i) = VRead(i + buf_size)

\* C12 witness: the caller has stored through the part of a view that lies
\* in the second half, and the stored byte is visible in the first half.
C12_Witness ==
    /\ pc = "live"
    /\ last.op = "store"
    /\ view.start + last.n - 1 >= buf_size
    /\ VRead(view.start + last.n - 1 - buf_size) \in Scribble
    /\ written # <<>>

\* C13: new(0) returns no buffer, and a buffer returned by new(num_pages)
\* has buf_size = num_pages * PageSize exactly, a positive multiple of the
\* page size, with a reserved and unmapped range of exactly 2 * buf_size.
C13_ExactCapacity ==
    /\ (last.op = "new" /\ last.n = 0) => pc # "live"
    /\ (last.op = "new" /\ pc = "live") =>
          /\ buf_size = last.n * PageSize
          /\ buf_size > 0
          /\ buf_size % PageSize = 0
          /\ MapSizeOf(buf_size) = 2 * buf_size
          /\ MunmapLen = 2 * buf_size

\* C14: no write and no read is made while a view is held: after every
\* write or read the only view in the caller's hands is the one that this
\* very call returned, so a held view was handed out by the latest call on
\* the buffer and shows the bytes that are in the storage now.
C14_NoViewAcrossCalls ==
    /\ [][last'.op \in {"write", "read"} =>
            (view'.held => /\ last'.op = "read"
                           /\ last'.res.ok
                           /\ view'.start = head
                           /\ view'.len = last'.n)]_vars
    /\ [](view.held =>
            /\ pc = "live"
            /\ last.op \in {"read", "store"}
            /\ view.bytes = [i \in 1..view.len |-> VRead(view.start + i - 1)])

\* C14 witness: the caller stored through a view, and a later write has gone
\* over the byte it stored; no view is held any more.
C14_Witness ==
    /\ pc = "live"
    /\ last.op = "write"
    /\ last.res.ok
    /\ stores > 0
    /\ \A p \in DOMAIN mem : mem[p] \notin Scribble
    /\ ~view.held

C16_FullIsRecoverable ==
    /\ []((pc = "live" /\ awaited.data # <<>> /\ last.op = "write"
           /\ Len(awaited.data) <= buf_size)
            => (~last.res.ok /\ contents_size > 0))
    /\ [][/\ (/\ awaited.data # <<>> /\ last'.op = "read"
              /\ last'.n = contents_size)
             => (last'.res.ok /\ contents_size' = 0)
          /\ (awaited.data # <<>> /\ last'.op = "read" /\ last'.res.ok)
             => (/\ contents_size' = contents_size - last'.n
                 /\ awaited' = awaited)
          /\ (/\ awaited.data # <<>> /\ last'.op = "write"
              /\ last'.data = awaited.data
              /\ Len(awaited.data) <= buf_size - contents_size)
             => (last'.res.ok /\ awaited'.retried)]_vars

\* C16 witness: the retry of a rejected slice has been accepted after reads
\* that left some bytes in the buffer.
C16_Witness ==
    /\ pc = "live"
    /\ last.op = "write"
    /\ awaited.retried
    /\ last.res.ok
    /\ last.pre_size > 0
    /\ last.n > 1

\* The offsets of the storage that hold the unread bytes.
UnreadOffsets == {(head + j) % buf_size : j \in 0..(contents_size - 1)}

\* The unread bytes, oldest first, as the storage holds them.
UnreadBytes == [j \in 1..contents_size |-> mem[(head + j - 1) % buf_size]]

\* C17: head and tail lie in [0, buf_size); the range [tail, tail + len) a
\* successful write copied to and the range [head, head + num_bytes) a
\* successful read handed out start below buf_size, end at or below
\* 2 * buf_size, and lie in halves that map the memfd.
C17_AddressBounds ==
    pc = "live" =>
        /\ head \in 0..(buf_size - 1)
        /\ tail \in 0..(buf_size - 1)
        /\ (last.op = "write" /\ last.res.ok) =>
              /\ last.pre_tail < buf_size
              /\ last.pre_tail + last.n <= 2 * buf_size
              /\ \A v \in last.pre_tail..(last.pre_tail + last.n - 1) :
                    Half(v) = "shared"
        /\ (last.op = "read" /\ last.res.ok) =>
              /\ view.start = last.pre_head
              /\ view.len = last.n
              /\ view.start < buf_size
              /\ view.start + view.len <= 2 * buf_size
              /\ \A v \in view.start..(view.start + view.len - 1) :
                    Half(v) = "shared"

\* C17 witness: the view that reaches furthest, from the last offset of the
\* first half over a whole buffer's worth.
C17_Witness ==
    /\ pc = "live"
    /\ last.op = "read"
    /\ last.res.ok
    /\ view.start = buf_size - 1
    /\ view.len = buf_size
    /\ buf_size > 1

\* C18: a successful write changes tail, contents_size and the stored bytes
\* at the offsets (tail + i) mod buf_size, i < len, and nothing else; a
\* successful read changes head and contents_size and nothing else.
C18_Frame ==
    [][/\ (last'.op = "write" /\ last'.res.ok) =>
            /\ tail' = (tail + last'.n) % buf_size
            /\ contents_size' = contents_size + last'.n
            /\ \A i \in 0..(last'.n - 1) :
                  mem'[(tail + i) % buf_size] = last'.data[i + 1]
            /\ \A p \in DOMAIN mem :
                  (\A i \in 0..(last'.n - 1) : p # (tail + i) % buf_size)
                      => mem'[p] = mem[p]
            /\ UNCHANGED <<head, buf_size, pc, fd_open, vm>>
       /\ (last'.op = "read" /\ last'.res.ok) =>
            /\ head' = (head + last'.n) % buf_size
            /\ contents_size' = contents_size - last'.n
            /\ UNCHANGED <<tail, buf_size, mem, pc, fd_open, vm>>]_vars

\* C18 witness: a write into a buffer that held bytes has wrapped and left
\* part of the storage as it was.
C18_Witness ==
    /\ pc = "live"
    /\ last.op = "write"
    /\ last.res.ok
    /\ last.pre_size > 0
    /\ last.pre_tail + last.n > buf_size
    /\ last.n < buf_size

\* C19: the offsets a successful write stores to are none of the offsets
\* that hold unread bytes, so the unread bytes keep their values: the
\* storage always holds, from head on, the bytes written and not yet read.
C19_WriteSparesUnread ==
    /\ [][(last'.op = "write" /\ last'.res.ok) =>
            /\ {(tail + i) % buf_size : i \in 0..(last'.n - 1)} \cap UnreadOffsets = {}
            /\ \A p \in UnreadOffsets : mem'[p] = mem[p]]_vars
    /\ [](pc = "live" =>
            UnreadBytes = SubSeq(written, Len(readout) + 1, Len(written)))

\* C19 witness: a write that wrapped has filled the buffer right up to the
\* unread bytes that were resident.
C19_Witness ==
    /\ pc = "live"
    /\ last.op = "write"
    /\ last.res.ok
    /\ last.pre_size > 0
    /\ last.pre_tail + last.n > buf_size
    /\ contents_size = buf_size

\* C20: the offsets of the view a successful read hands out are none of the
\* offsets that hold the bytes still unread, so a store through the view
\* changes no unread byte and later reads return what was written.
C20_ViewSparesUnread ==
    /\ [](view.held =>
            {(view.start + i) % buf_size : i \in 0..(view.len - 1)}
                \cap UnreadOffsets = {})
    /\ [](pc = "live" =>
            /\ UnreadBytes = SubSeq(written, Len(readout) + 1, Len(written))
            /\ \A j \in 1..Len(readout) : readout[j] \notin Scribble)
    /\ [][last'.op = "store" =>
            /\ \A p \in UnreadOffsets : mem'[p] = mem[p]
            /\ UNCHANGED <<head, tail, contents_size>>]_vars

\* C20 witness: the caller has stored through a view that ends at the last
\* offset of the storage while the unread bytes start at offset 0, and the
\* stored byte is in the storage.
C20_Witness ==
    /\ pc = "live"
    /\ last.op = "store"
    /\ view.held
    /\ view.start + view.len = buf_size
    /\ head = 0
    /\ contents_size > 0
    /\ \E p \in DOMAIN mem : mem[p] \in Scribble

====
